---------------------------- MODULE Spec2Model ----------------------------
(***************************************************************************)
(* Model of the FitAI Flask application (src/app.py).                      *)
(*                                                                         *)
(* Numbers.  The program computes with Python floats.  The model computes  *)
(* with exact rationals [num, den] (den > 0): weights are given in tenths  *)
(* of a kilogram, heights in centimetres (the steps of the HTML form),     *)
(* ratings in tenths.  The inputs enumerated below are chosen so that the  *)
(* float computation and the exact one agree on every comparison.          *)
(***************************************************************************)
EXTENDS Integers, Sequences, FiniteSets, TLC

VARIABLES
    last_fitness,     \* app.py:11   the module-level slot
    df_mega,          \* app.py:17   the catalog, None when loading failed
    label_encoders,   \* app.py:38   None, or field -> classes_
    title_model,      \* app.py:39
    equipment_model,  \* app.py:40
    level_model,      \* app.py:41
    body_parts,       \* app.py:42
    request,          \* the request (or call) being answered
    response,         \* what the request (or call) returned
    lastOk,           \* history: form values of the last /fitness that succeeded
    threads           \* the worker threads of the threaded server

vars == <<last_fitness, df_mega, label_encoders, title_model, equipment_model,
          level_model, body_parts, request, response, lastOk, threads>>

\* Python's None; every other value of a slot that can hold None is a record
None == [none |-> TRUE]

\* ------------------------------------------------------------------ bounds

MaxWeightKg == 150
MaxBfpTenths == 1010
MaxCatalog == 12
NumThreads == 2

\* ------------------------------------------------------------- arithmetic

Rat(n, d) == [num |-> n, den |-> d]

\* r < k/10 and r <= k/10, r > k/10 for a rational r with r.den > 0
RatLt10(r, k) == r.num * 10 < k * r.den
RatLe(r, k) == r.num <= k * r.den
RatGe(r, k) == r.num >= k * r.den

\* round(x, 2), as an integer number of hundredths (ties to even); the whole
\* part is split off first to keep the products small
Round2(r) ==
    LET n == (r.num % r.den) * 100
        q == (r.num \div r.den) * 100 + (n \div r.den)
        m == n % r.den
    IN  IF 2 * m > r.den THEN q + 1
        ELSE IF 2 * m = r.den THEN q + (q % 2)
        ELSE q

Min(S) == CHOOSE x \in S : \A y \in S : x <= y

\* ------------------------------------------------- fitness plan functions

BFP_STANDARDS_MALE ==
    << [name |-> "Essential", lo |-> 2, hi |-> 5],
       [name |-> "Athletes", lo |-> 6, hi |-> 13],
       [name |-> "Fitness", lo |-> 14, hi |-> 17],
       [name |-> "Acceptable", lo |-> 18, hi |-> 24],
       [name |-> "Obese", lo |-> 25, hi |-> 100] >>

BFP_STANDARDS_FEMALE ==
    << [name |-> "Essential", lo |-> 10, hi |-> 13],
       [name |-> "Athletes", lo |-> 14, hi |-> 20],
       [name |-> "Fitness", lo |-> 21, hi |-> 24],
       [name |-> "Acceptable", lo |-> 25, hi |-> 31],
       [name |-> "Obese", lo |-> 32, hi |-> 100] >>

BmiCases ==
    << "sever thinness", "moderate thinness", "mild thinness", "normal",
       "over weight", "obese", "severe obese" >>

\* the ascending thresholds of calculate_bmi_case, in tenths
BmiThresholds == << 160, 170, 185, 250, 300, 350 >>

\* bmi = weight / (height * height); height # 0 (else ZeroDivisionError)
BmiOf(weight, height) == Rat(weight * 1000, height * height)

\* the if/elif chain with <= in place of <
BmiCaseInclusive(bmi) ==
    LET below == {i \in 1..Len(BmiThresholds) :
                     bmi.num * 10 <= BmiThresholds[i] * bmi.den}
    IN  IF below = {} THEN BmiCases[Len(BmiCases)] ELSE BmiCases[Min(below)]

\* the if/elif chain: the first threshold bmi is below, else the last case
BmiCaseOf(bmi) ==
    LET below == {i \in 1..Len(BmiThresholds) : RatLt10(bmi, BmiThresholds[i])}
    IN  IF below = {} THEN BmiCases[Len(BmiCases)] ELSE BmiCases[Min(below)]

calculate_bmi_case(weight, height) ==
    LET bmi == BmiOf(weight, height)
    IN  [bmi |-> bmi, case |-> BmiCaseOf(bmi)]

estimate_bfp(bmi, gender, age) ==
    LET g == IF gender = "male" THEN 1 ELSE 0
        n == 120 * bmi.num + (23 * age - 1080 * g - 540) * bmi.den
    IN  IF n > 0 THEN Rat(n, 100 * bmi.den) ELSE Rat(0, 1)

BfpTable(gender) ==
    IF gender = "male" THEN BFP_STANDARDS_MALE ELSE BFP_STANDARDS_FEMALE

InBand(bfp, band) == RatGe(bfp, band.lo) /\ RatLe(bfp, band.hi)

bfp_case(bfp, gender) ==
    LET table == BfpTable(gender)
        hits == {i \in 1..Len(table) : InBand(bfp, table[i])}
    IN  IF hits = {} THEN "Obese" ELSE table[Min(hits)].name

get_plan(bmi_case) ==
    CHOOSE i \in 1..Len(BmiCases) : BmiCases[i] = bmi_case


\* ---------------------------------------------------------- the catalog

HEAD_N == 10

Levels == << "Intermediate", "Beginner", "Expert" >>
Types == << "Strength", "Cardio", "Olympic Weightlifting", "Stretching" >>
BodyParts == << "Chest", "Legs", "Abdominals", "Biceps" >>

\* a column of the cleaned dataset: pattern 0 runs through the pool row by
\* row, pattern k > 0 holds the pool's k-th label in every row
Column(pool, pat, i) ==
    IF pat = 0 THEN pool[(i % Len(pool)) + 1] ELSE pool[pat]

\* the Rating column (tenths): ascending, descending, or with repeated values
RatingColumn(pat, i) ==
    IF pat = 0 THEN i ELSE IF pat = 1 THEN 100 - i ELSE 10 * (i % 6)

\* row i of a cleaned dataset; Title stands for the row's position in the file
Row(i, pat) ==
    [Title |-> i,
     Type |-> Column(Types, pat.typ, i),
     BodyPart |-> Column(BodyParts, pat.body, i \div 2),
     Level |-> Column(Levels, pat.lvl, i),
     Rating |-> RatingColumn(pat.rat, i)]

Patterns == [typ : 0..2, body : 0..2, lvl : 0..2, rat : 0..2]

\* the DataFrame read_csv and the cleaning steps leave in df_mega
CatalogOf(n, pat) == [rows |-> [i \in 1..n |-> Row(i, pat)]]

Catalogs == {CatalogOf(n, pat) : n \in 0..MaxCatalog, pat \in Patterns}

\* ------------------------------------------------- recommend_exercises

\* the mask of lines 102-116, with the BodyPart clause of plans 1-3 left out
PlanPredicateNoBodyPart(plan, r) ==
    IF plan \in {1, 2, 3}
    THEN /\ r.Type \in {"Strength", "Olympic Weightlifting"}
         /\ r.Level \in {"Beginner", "Intermediate"}
    ELSE IF plan = 4
    THEN r.Level = "Intermediate"
    ELSE IF plan \in {5, 6}
    THEN /\ r.Type \in {"Cardio", "Strength"}
         /\ r.BodyPart \in {"Legs", "Glutes", "Full Body", "Abdominals"}
    ELSE r.Level = "Beginner"

\* the mask of lines 102-116
PlanPredicate(plan, r) ==
    IF plan \in {1, 2, 3}
    THEN /\ r.Type \in {"Strength", "Olympic Weightlifting"}
         /\ r.Level \in {"Beginner", "Intermediate"}
         /\ r.BodyPart \in {"Chest", "Back", "Legs", "Shoulders"}
    ELSE IF plan = 4
    THEN r.Level = "Intermediate"
    ELSE IF plan \in {5, 6}
    THEN /\ r.Type \in {"Cardio", "Strength"}
         /\ r.BodyPart \in {"Legs", "Glutes", "Full Body", "Abdominals"}
    ELSE r.Level = "Beginner"

\* df_mega[mask]: the matching rows, in catalog order
FilterCatalog(plan, df) ==
    LET Keep(r) == PlanPredicate(plan, r) IN SelectSeq(df, Keep)

MaxRating(f) ==
    CHOOSE x \in {f[i].Rating : i \in 1..Len(f)} :
        \A i \in 1..Len(f) : f[i].Rating <= x

\* the orders of the rows of a set
Orders(S) ==
    LET k == Cardinality(S)
    IN  {p \in [1..k -> S] : \A i, j \in 1..k : p[i] = p[j] => i = j}

\* sort_values("Rating", ascending=False): pandas sorts with kind="quicksort",
\* which is not a stable sort, so rows of equal rating come out in any order
RECURSIVE SortOutcomes(_)
SortOutcomes(f) ==
    IF f = << >> THEN { << >> }
    ELSE LET mx == MaxRating(f)
             IsTop(r) == r.Rating = mx
             IsRest(r) == r.Rating # mx
             top == {f[i] : i \in {j \in 1..Len(f) : IsTop(f[j])}}
         IN  {p \o s : p \in Orders(top), s \in SortOutcomes(SelectSeq(f, IsRest))}

\* the whole frame, head(10) left out
HeadAll(s) == s

\* .head(10)
HeadN(s) == SubSeq(s, 1, IF Len(s) < HEAD_N THEN Len(s) ELSE HEAD_N)

\* sort_values("Rating", ascending=False)
SortValues(f) == SortOutcomes(f)

\* the results recommend_exercises(plan) can return
recommend_exercises(plan, df) ==
    IF df = None THEN { << >> }
    ELSE {HeadN(s) : s \in SortValues(FilterCatalog(plan, df.rows))}

\* ------------------------------------------------ encoders and classifiers

\* LabelEncoder.classes_ of the four fields (sorted, as fit() leaves them)
Encoders ==
    [BodyPart |-> << "Abdominals", "Chest", "Legs" >>,
     Title |-> << "Bench Press", "Crunch", "Squat" >>,
     Equipment |-> << "Barbell", "Body Only" >>,
     Level |-> << "Beginner", "Intermediate" >>]

BodyCodes == 0..(Len(Encoders.BodyPart) - 1)

\* a fitted classifier: one encoded feature in, one code out
ClassifierOf(a, b) == [predict |-> [c \in BodyCodes |-> a * c + b]]

\* the pickled title, equipment and level models the application may find
ModelSets ==
    {[title |-> ClassifierOf(1, 0), equipment |-> ClassifierOf(1, 0),
      level |-> ClassifierOf(0, 1)],
     [title |-> ClassifierOf(0, 1), equipment |-> ClassifierOf(0, 1),
      level |-> ClassifierOf(1, 0)]}

\* LabelEncoder.transform([label])[0]: the label's code, ValueError when unseen
Seen(classes, label) == \E i \in 1..Len(classes) : classes[i] = label
Transform(classes, label) ==
    (CHOOSE i \in 1..Len(classes) : classes[i] = label) - 1

\* LabelEncoder.inverse_transform([code])[0]: ValueError when the code is unseen
Decodable(classes, code) == code \in 0..(Len(classes) - 1)

\* a decoder that answers an unseen code with its first label
InverseTransformOrFirst(classes, code) ==
    IF Decodable(classes, code) THEN [ok |-> TRUE, label |-> classes[code + 1]]
    ELSE [ok |-> TRUE, label |-> classes[1]]

InverseTransform(classes, code) ==
    IF Decodable(classes, code) THEN [ok |-> TRUE, label |-> classes[code + 1]]
    ELSE [ok |-> FALSE]

\* lines 44-53: the pickles load in order until one fails; n of the four loaded
LoadedModels(n, ms) ==
    /\ label_encoders = (IF n >= 1 THEN Encoders ELSE None)
    /\ title_model = (IF n >= 2 THEN ms.title ELSE None)
    /\ equipment_model = (IF n >= 3 THEN ms.equipment ELSE None)
    /\ level_model = (IF n >= 4 THEN ms.level ELSE None)
    /\ body_parts = (IF n >= 4 THEN Encoders.BodyPart ELSE << >>)

\* ------------------------------------------------------------- the routes

\* the value attribute of a form field: << >> renders "", << v >> renders v
Blank == << >>
Shown(v) == << v >>

DefaultForm == [weight |-> Blank, height |-> Blank, age |-> Blank, gender |-> "male"]

Page(op, fitness, ml, form) ==
    [op |-> op, status |-> "ok", fitness |-> fitness, ml |-> ml,
     body_parts |-> body_parts, form |-> form]

Failure(op, error) == [op |-> op, status |-> "error", error |-> error]

\* a home page rendered with fitness=None
HomeFitnessDropped(lf) == None

\* line 337: fitness=last_fitness
HomeFitness(lf) == lf

\* GET /

home ==
    /\ request' = [op |-> "home"]
    /\ response' = Page("home", HomeFitness(last_fitness), None, DefaultForm)
    /\ UNCHANGED <<last_fitness, df_mega, label_encoders, title_model,
                   equipment_model, level_model, body_parts, lastOk, threads>>

\* lines 352-355: float() and int() reject a field that is no number
Parses(form) == form.parses

\* lines 357-369: the dicts the route can build from a parsed form with
\* height # 0 (one per order recommend_exercises can return)
Assessments(form, df) ==
    LET c == calculate_bmi_case(form.weight, form.height)
        bfp == estimate_bfp(c.bmi, form.gender, form.age)
        plan == get_plan(c.case)
    IN  {[bmi |-> Round2(c.bmi), bmi_case |-> c.case,
          bfp |-> Round2(bfp), bfp_case |-> bfp_case(bfp, form.gender),
          plan |-> plan, exercises |-> ex] :
            ex \in recommend_exercises(plan, df)}

\* lines 352-357: the exception the route dies of before it stores anything
FitnessError(form) ==
    IF ~Parses(form) THEN "ValueError"
    ELSE IF form.height = 0 THEN "ZeroDivisionError"
    ELSE "none"

FormOf(form) ==
    [weight |-> Shown(form.weight), height |-> Shown(form.height),
     age |-> Shown(form.age), gender |-> form.gender]

\* POST /fitness, one request served from start to end
fitness_route(form) ==
    /\ request' = [op |-> "fitness", form |-> form]
    /\ IF FitnessError(form) # "none"
       THEN /\ response' = Failure("fitness", FitnessError(form))
            /\ UNCHANGED <<last_fitness, lastOk>>
       ELSE \E a \in Assessments(form, df_mega) :
              /\ last_fitness' = a
              /\ response' = Page("fitness", last_fitness', None, FormOf(form))
              /\ lastOk' = [form |-> form, shown |-> response'.fitness]
    /\ UNCHANGED <<df_mega, label_encoders, title_model, equipment_model,
                   level_model, body_parts, threads>>

\* request.args.get(key, default)
ArgsGet(args, key, default) ==
    IF key \in DOMAIN args THEN Shown(args[key]) ELSE default

\* lines 387-397: the exception the prediction dies of, or "none"
MlError(bodypart) ==
    IF label_encoders = None THEN "TypeError"
    ELSE IF ~Seen(label_encoders.BodyPart, bodypart) THEN "ValueError"
    ELSE IF title_model = None \/ equipment_model = None \/ level_model = None
    THEN "AttributeError"
    ELSE LET encoded == Transform(label_encoders.BodyPart, bodypart)
         IN  IF /\ InverseTransform(label_encoders.Title,
                                    title_model.predict[encoded]).ok
                /\ InverseTransform(label_encoders.Equipment,
                                    equipment_model.predict[encoded]).ok
                /\ InverseTransform(label_encoders.Level,
                                    level_model.predict[encoded]).ok
             THEN "none" ELSE "ValueError"

\* lines 387-397 with the equipment label decoded from the level model's code
MlDataCrossed(bodypart) ==
    LET encoded == Transform(label_encoders.BodyPart, bodypart)
    IN  [title |-> InverseTransform(label_encoders.Title,
                                    title_model.predict[encoded]).label,
         equipment |-> InverseTransform(label_encoders.Equipment,
                                        level_model.predict[encoded]).label,
         level |-> InverseTransform(label_encoders.Level,
                                    level_model.predict[encoded]).label]

\* lines 387-397, when nothing raises
MlData(bodypart) ==
    LET encoded == Transform(label_encoders.BodyPart, bodypart)
    IN  [title |-> InverseTransform(label_encoders.Title,
                                    title_model.predict[encoded]).label,
         equipment |-> InverseTransform(label_encoders.Equipment,
                                        equipment_model.predict[encoded]).label,
         level |-> InverseTransform(label_encoders.Level,
                                    level_model.predict[encoded]).label]

\* lines 399-407: the form values come from the query string of the request
MlForm(args) ==
    IF last_fitness # None
    THEN [weight |-> ArgsGet(args, "weight", Blank),
          height |-> ArgsGet(args, "height", Blank),
          age |-> ArgsGet(args, "age", Blank),
          gender |-> IF "gender" \in DOMAIN args THEN args.gender ELSE "male"]
    ELSE DefaultForm

\* POST /ml_predict
ml_predict_route(bodypart, args) ==
    /\ request' = [op |-> "ml_predict", bodypart |-> bodypart, args |-> args]
    /\ IF MlError(bodypart) # "none"
       THEN response' = Failure("ml_predict", MlError(bodypart))
       ELSE response' = Page("ml_predict", last_fitness, MlData(bodypart),
                             MlForm(args))
    /\ UNCHANGED <<last_fitness, df_mega, label_encoders, title_model,
                   equipment_model, level_model, body_parts, lastOk, threads>>

\* ------------------------------------------------- the requests a client sends

\* a form no float() or int() accepts (a missing or non-numeric field)
Malformed ==
    [parses |-> FALSE, weight |-> 0, height |-> 0, age |-> 0, gender |-> "male"]

\* weight in tenths of a kilogram, height in centimetres, age in years
FitnessForms ==
    {[parses |-> TRUE, weight |-> w, height |-> h, age |-> a, gender |-> g] :
        w \in {-700, 0, 700}, h \in {0, 175}, a \in {0, 28},
        g \in {"male", "female", "other"}}
    \cup {Malformed}

BodyPartLabels == {"Abdominals", "Chest", "Legs", "Unicorn"}

\* the query string: empty when the page's own form posts to /ml_predict
PageArgs == [k \in {} |-> 0]
QueryArgs == {PageArgs, [weight |-> 700, height |-> 175, age |-> 30, gender |-> "female"]}

WebCatalogRows == 7

\* the catalogs the application is started with: none (the file is missing),
\* an empty one, one with rows of equal rating
WebCatalogs ==
    {None,
     CatalogOf(0, [typ |-> 1, body |-> 2, lvl |-> 0, rat |-> 2]),
     CatalogOf(WebCatalogRows, [typ |-> 1, body |-> 2, lvl |-> 0, rat |-> 2])}

\* ------------------------------------------------------ the functions alone

Threads == 1..NumThreads

NoResponse == [op |-> "none"]

IdleThread == [pc |-> "idle"]

\* the module state no call of a fitness plan function touches
ModuleIdle ==
    /\ last_fitness = None
    /\ label_encoders = None
    /\ title_model = None
    /\ equipment_model = None
    /\ level_model = None
    /\ body_parts = << >>
    /\ lastOk = None
    /\ threads = [t \in Threads |-> IdleThread]

Genders == {"male", "female"}

\* heights (cm) whose squares the float computation represents well enough
Heights == {150, 160, 175, 200}

ClassifyCalls ==
    {[op |-> "classify", weight |-> 10 * w, height |-> h] :
        w \in 1..MaxWeightKg, h \in Heights}

BfpCaseCalls ==
    {[op |-> "bfp_case", bfp |-> Rat(t, 10), gender |-> g] :
        t \in 0..MaxBfpTenths, g \in Genders}

InitClassify ==
    /\ ModuleIdle
    /\ df_mega = None
    /\ request \in ClassifyCalls \cup BfpCaseCalls
    /\ response = NoResponse

\* bmi, bmi_case = calculate_bmi_case(weight, height); plan = get_plan(bmi_case)
CallClassify ==
    /\ request.op = "classify"
    /\ response = NoResponse
    /\ LET c == calculate_bmi_case(request.weight, request.height)
       IN  response' = [op |-> "classify", bmi |-> c.bmi, bmi_case |-> c.case,
                        plan |-> get_plan(c.case)]
    /\ UNCHANGED <<last_fitness, df_mega, label_encoders, title_model,
                   equipment_model, level_model, body_parts, request, lastOk,
                   threads>>

CallBfpCase ==
    /\ request.op = "bfp_case"
    /\ response = NoResponse
    /\ response' = [op |-> "bfp_case", ret |-> bfp_case(request.bfp, request.gender)]
    /\ UNCHANGED <<last_fitness, df_mega, label_encoders, title_model,
                   equipment_model, level_model, body_parts, request, lastOk,
                   threads>>

NextClassify == CallClassify \/ CallBfpCase

SpecClassify == InitClassify /\ [][NextClassify]_vars

InitRecommend ==
    /\ ModuleIdle
    /\ df_mega \in Catalogs \cup {None}
    /\ request \in {[op |-> "recommend_exercises", plan |-> p] : p \in 0..8}
    /\ response = NoResponse

CallRecommend ==
    /\ request.op = "recommend_exercises"
    /\ response = NoResponse
    /\ \E r \in recommend_exercises(request.plan, df_mega) :
          response' = [op |-> "recommend_exercises", ret |-> r]
    /\ UNCHANGED <<last_fitness, df_mega, label_encoders, title_model,
                   equipment_model, level_model, body_parts, request, lastOk,
                   threads>>

NextRecommend == CallRecommend

SpecRecommend == InitRecommend /\ [][NextRecommend]_vars

\* ------------------------------------------- the application, one request
\* ------------------------------------------- at a time

Init ==
    /\ last_fitness = None
    /\ df_mega \in WebCatalogs
    /\ \E n \in 0..4, ms \in ModelSets : LoadedModels(n, ms)
    /\ request = [op |-> "none"]
    /\ response = NoResponse
    /\ lastOk = None
    /\ threads = [t \in Threads |-> IdleThread]

Next ==
    \/ home
    \/ \E form \in FitnessForms : fitness_route(form)
    \/ \E bodypart \in BodyPartLabels, args \in QueryArgs :
          ml_predict_route(bodypart, args)

Spec == Init /\ [][Next]_vars

\* ----------------------------------- the application, requests in parallel
\* (app.run serves each request in a thread of its own)

ConcurrentForms ==
    {f \in FitnessForms : f.age = 28 /\ f.gender \in Genders}

\* lines 352-369 in thread t: the form is parsed, the assessment computed and
\* stored in the module-level slot
fitness_store(t, form) ==
    /\ threads[t].pc = "idle"
    /\ IF FitnessError(form) # "none"
       THEN /\ request' = [op |-> "fitness", form |-> form]
            /\ response' = Failure("fitness", FitnessError(form))
            /\ UNCHANGED <<last_fitness, threads>>
       ELSE /\ \E a \in Assessments(form, df_mega) : last_fitness' = a
            /\ threads' = [threads EXCEPT ![t] = [pc |-> "render", form |-> form]]
            /\ UNCHANGED <<request, response>>
    /\ UNCHANGED <<df_mega, label_encoders, title_model, equipment_model,
                   level_model, body_parts, lastOk>>

\* lines 371-380 in thread t: the page is rendered from the module-level slot
\* and the thread's own form values
fitness_render(t) ==
    /\ threads[t].pc = "render"
    /\ request' = [op |-> "fitness", form |-> threads[t].form]
    /\ response' = Page("fitness", last_fitness, None, FormOf(threads[t].form))
    /\ threads' = [threads EXCEPT ![t] = IdleThread]
    /\ UNCHANGED <<last_fitness, df_mega, label_encoders, title_model,
                   equipment_model, level_model, body_parts, lastOk>>

NextConc ==
    \/ \E t \in Threads, form \in ConcurrentForms : fitness_store(t, form)
    \/ \E t \in Threads : fitness_render(t)

SpecConc == Init /\ [][NextConc]_vars

\* ------------------------------------------- claims on recommend_exercises

Recommended == response.op = "recommend_exercises"

\* the rows of the catalog matching the plan of the call, none when the
\* catalog is unavailable
MatchingRows ==
    IF df_mega = None THEN << >> ELSE FilterCatalog(request.plan, df_mega.rows)

RowsOf(s) == {s[i] : i \in 1..Len(s)}

\* the matching rows by rating descending, rows of equal rating in catalog
\* order: what a stable sort gives
StableOrder(f) ==
    CHOOSE s \in SortOutcomes(f) :
        \A i, j \in 1..Len(s) :
            (i < j /\ s[i].Rating = s[j].Rating) => s[i].Title < s[j].Title

C5_Selected(plan, r) ==
    CASE plan \in {1, 2, 3} ->
            /\ r.Type \in {"Strength", "Olympic Weightlifting"}
            /\ r.Level \in {"Beginner", "Intermediate"}
            /\ r.BodyPart \in {"Chest", "Back", "Legs", "Shoulders"}
      [] plan = 4 -> r.Level = "Intermediate"
      [] plan \in {5, 6} ->
            /\ r.Type \in {"Cardio", "Strength"}
            /\ r.BodyPart \in {"Legs", "Glutes", "Full Body", "Abdominals"}
      [] OTHER -> r.Level = "Beginner"

\* C5: every record recommend_exercises returns satisfies the predicate of
\* the plan it was called with (plans 1-3, 4, 5-6, and 7 or any other value).
C5_ResultsMatchPlan ==
    Recommended =>
        \A i \in 1..Len(response.ret) :
            C5_Selected(request.plan, response.ret[i])

\* a plan of 5 or 6 returned rows from a catalog that also holds rows the
\* plan does not select
C5_Witness ==
    /\ Recommended
    /\ request.plan \in {5, 6}
    /\ Len(response.ret) >= 2
    /\ \E i \in 1..Len(df_mega.rows) :
          ~C5_Selected(request.plan, df_mega.rows[i])

\* ------------------------------------- claims on the biometric functions

\* C2 as stated: for a bfp between 0 and 100 the case returned is that of a
\* band of the gender's table whose range contains bfp; the fallback is
\* taken only above 100.
C2_FallbackOnlyAbove100 ==
    (response.op = "bfp_case" /\ RatGe(request.bfp, 0) /\ RatLe(request.bfp, 100))
        => \E i \in 1..Len(BfpTable(request.gender)) :
              /\ InBand(request.bfp, BfpTable(request.gender)[i])
              /\ response.ret = BfpTable(request.gender)[i].name

\* the number of thresholds 16, 17, 18.5, 25, 30, 35 that bmi has reached
C3_Reached(weight, height) ==
    Cardinality({t \in {160, 170, 185, 250, 300, 350} :
                    t * height * height <= weight * 10000})

InvalidInput(form) ==
    form.weight <= 0 \/ form.height <= 0 \/ form.age <= 0
        \/ form.gender \notin {"male", "female"}

\* C1 as stated: a /fitness request with weight <= 0, height <= 0, age <= 0
\* or a gender outside {male, female} ends in an error, with nothing
\* computed, returned or stored.
C1_InvalidInputRejected ==
    (response.op = "fitness" /\ InvalidInput(request.form))
        => response.status = "error"

\* C9 as stated: the page answering a /fitness request shows an assessment
\* computed from that request's own weight, height, age and gender.
C9_OwnAssessment ==
    (response.op = "fitness" /\ response.status = "ok")
        => response.fitness \in Assessments(request.form, df_mega)

\* C10 as stated: once a /fitness request has succeeded, the page a later
\* /ml_predict request posted from the page's form returns shows the form
\* fields filled with the values of the last submitted fitness plan.
C10_FormValuesKept ==
    (/\ response.op = "ml_predict"
     /\ response.status = "ok"
     /\ request.args = PageArgs
     /\ lastOk # None)
        => response.form = FormOf(lastOk.form)

\* the code a loaded classifier predicts for the label of the request
C6_Code(model) ==
    model.predict[(CHOOSE i \in 1..Len(label_encoders.BodyPart) :
                      label_encoders.BodyPart[i] = request.bodypart) - 1]

\* the request's prediction cannot complete: something failed to load, the
\* label is not in the BodyPart vocabulary, or a predicted code has no label
C6_CannotComplete ==
    IF label_encoders = None \/ title_model = None
          \/ equipment_model = None \/ level_model = None
    THEN TRUE
    ELSE IF request.bodypart \notin RowsOf(label_encoders.BodyPart)
    THEN TRUE
    ELSE \/ C6_Code(title_model) \notin 0..(Len(label_encoders.Title) - 1)
         \/ C6_Code(equipment_model) \notin 0..(Len(label_encoders.Equipment) - 1)
         \/ C6_Code(level_model) \notin 0..(Len(label_encoders.Level) - 1)

\* C6: a /ml_predict request that cannot complete (label absent from the
\* BodyPart vocabulary, a predicted code absent from its decoder, encoders or
\* classifiers not loaded) ends in an error and returns no prediction; it
\* leaves the stored assessment unchanged, and a /fitness request that
\* follows it still computes, stores and returns its assessment.
C6_PredictionFailsCleanly ==
    /\ []((response.op = "ml_predict" /\ C6_CannotComplete)
            => response.status = "error")
    /\ [][(request'.op = "ml_predict" /\ response'.status = "error")
            => last_fitness' = last_fitness]_vars
    /\ [][(/\ response.op = "ml_predict"
           /\ response.status = "error"
           /\ request'.op = "fitness"
           /\ request'.form.parses
           /\ request'.form.height # 0)
            => (/\ response'.status = "ok"
                /\ response'.fitness \in Assessments(request'.form, df_mega)
                /\ last_fitness' = response'.fitness)]_vars

\* everything is loaded and the label is known, a predicted code has no
\* label, the request ended in an error, an assessment is stored
C6_Witness ==
    /\ response.op = "ml_predict"
    /\ response.status = "error"
    /\ level_model # None
    /\ request.bodypart \in RowsOf(label_encoders.BodyPart)
    /\ C6_CannotComplete
    /\ last_fitness # None

\* C7: a completed /ml_predict returns the labels the Title, Equipment and
\* Level encoders give for the codes the title, equipment and level
\* classifiers predict from the one encoded body part, each code decoded
\* through the encoder of its own field.
C7_DecodedThroughOwnEncoder ==
    (response.op = "ml_predict" /\ response.status = "ok") =>
        /\ response.ml.title = Encoders.Title[C6_Code(title_model) + 1]
        /\ response.ml.equipment = Encoders.Equipment[C6_Code(equipment_model) + 1]
        /\ response.ml.level = Encoders.Level[C6_Code(level_model) + 1]

\* a prediction completed in which the three classifiers gave different codes
C7_Witness ==
    /\ response.op = "ml_predict"
    /\ response.status = "ok"
    /\ C6_Code(equipment_model) # C6_Code(level_model)
    /\ C6_Code(title_model) # C6_Code(level_model)

\* C8: with requests served one at a time, the fitness result / and
\* /ml_predict display is the assessment of the most recent /fitness request
\* that succeeded, none when none has; / and /ml_predict never change the
\* stored assessment, and a /fitness request that fails leaves it unchanged.
C8_LastAssessmentShown ==
    /\ []((response.op \in {"home", "ml_predict"} /\ response.status = "ok")
            => response.fitness = (IF lastOk = None THEN None ELSE lastOk.shown))
    /\ [][request'.op \in {"home", "ml_predict"}
            => last_fitness' = last_fitness]_vars
    /\ [][(request'.op = "fitness" /\ response'.status = "error")
            => last_fitness' = last_fitness]_vars

\* / displays the assessment of an earlier /fitness request
C8_Witness ==
    /\ response.op = "home"
    /\ lastOk # None
    /\ response.fitness = lastOk.shown
    /\ response.fitness.plan = 4

=============================================================================
